---- MODULE Spec2Model ----
(***************************************************************************)
(* A model of the ACMI replay core: AcmiParserService.parse               *)
(* (src/src/services/acmi-parser.service.ts), taken one input line at a   *)
(* time.                                                                   *)
(*                                                                         *)
(* Text is modelled at the level of characters: a string is a sequence of  *)
(* one-character strings, so that trim, startsWith, substring, indexOf,    *)
(* tokenizeLine, splitKeyValue, split('|') and parseFloat are computed the *)
(* way the code computes them.                                             *)
(*                                                                         *)
(* A JavaScript number is a record: Num(v) for the finite value v/Scale    *)
(* (fixed point, Scale = 1000), NaN for not-a-number.  null and undefined  *)
(* are the records Null and Undefined.                                     *)
(***************************************************************************)
EXTENDS Integers, Sequences, FiniteSets, TLC

\* ------------------------------------------------------------------------
\* Bounds of the model.

\* The number of lines of the input text.
MaxLines == 5

\* ------------------------------------------------------------------------
\* JavaScript values.

\* The fixed-point resolution of a modelled number: thousandths.
Scale == 10 * 10 * 10

Num(v) == [k |-> "num", v |-> v]
NaN == [k |-> "nan", v |-> 0]
Null == [k |-> "null", v |-> 0]
Undefined == [k |-> "undefined", v |-> 0]

IsNum(x) == x.k = "num"
IsNaN(x) == x.k = "nan"

\* A mutation of JsMax: the later value wins, not the larger one.
JsMaxLast(a, b) == b

\* Math.max(a, b) on two numbers: NaN if either is NaN.
JsMax(a, b) ==
    IF IsNaN(a) \/ IsNaN(b) THEN NaN
    ELSE IF a.v >= b.v THEN a ELSE b

\* ------------------------------------------------------------------------
\* Strings: sequences of one-character strings.

WhiteSpace == {" ", "\t", "\r"}
DigitChars == <<"0", "1", "2", "3", "4", "5", "6", "7", "8", "9">>
Digits == {DigitChars[i] : i \in 1..Len(DigitChars)}
DigitVal(c) == (CHOOSE i \in 1..Len(DigitChars) : DigitChars[i] = c) - 1

RECURSIVE TrimStart(_)
TrimStart(s) ==
    IF s # <<>> /\ Head(s) \in WhiteSpace THEN TrimStart(Tail(s)) ELSE s

RECURSIVE TrimEnd(_)
TrimEnd(s) ==
    IF s # <<>> /\ s[Len(s)] \in WhiteSpace
    THEN TrimEnd(SubSeq(s, 1, Len(s) - 1))
    ELSE s

\* String.prototype.trim
Trim(s) == TrimEnd(TrimStart(s))

\* String.prototype.startsWith / endsWith
StartsWith(s, p) == Len(s) >= Len(p) /\ SubSeq(s, 1, Len(p)) = p
EndsWith(s, p) ==
    Len(s) >= Len(p) /\ SubSeq(s, Len(s) - Len(p) + 1, Len(s)) = p

\* String.prototype.substring(start, end), 0-based, end exclusive: both
\* arguments are clamped to [0, length] and swapped when start > end.
JsSubstring(s, start, end) ==
    LET clamp(n) == IF n < 0 THEN 0 ELSE IF n > Len(s) THEN Len(s) ELSE n
        a == clamp(start)
        b == clamp(end)
        lo == IF a <= b THEN a ELSE b
        hi == IF a <= b THEN b ELSE a
    IN SubSeq(s, lo + 1, hi)

\* String.prototype.indexOf(c), 0-based, -1 when c does not occur.
IndexOf(s, c) ==
    IF \E i \in 1..Len(s) : s[i] = c
    THEN (CHOOSE i \in 1..Len(s) : s[i] = c /\ \A j \in 1..(i - 1) : s[j] # c) - 1
    ELSE -1

\* String.prototype.split(sep) for a one-character separator.
RECURSIVE SplitFrom(_, _, _)
SplitFrom(s, sep, cur) ==
    IF s = <<>> THEN <<cur>>
    ELSE IF Head(s) = sep THEN <<cur>> \o SplitFrom(Tail(s), sep, <<>>)
    ELSE SplitFrom(Tail(s), sep, Append(cur, Head(s)))

Split(s, sep) == SplitFrom(s, sep, <<>>)

\* The longest prefix of s made of decimal digits.
RECURSIVE DigitRun(_)
DigitRun(s) ==
    IF s # <<>> /\ Head(s) \in Digits
    THEN <<Head(s)>> \o DigitRun(Tail(s))
    ELSE <<>>

RECURSIVE DigitsValue(_)
DigitsValue(d) ==
    IF d = <<>> THEN 0
    ELSE DigitsValue(SubSeq(d, 1, Len(d) - 1)) * 10 + DigitVal(d[Len(d)])

\* The fraction digits d as a count of 1/Scale (digits past the third are
\* below the model's resolution).
FracValue(d) == DigitsValue(SubSeq(d \o <<"0", "0", "0">>, 1, 3))

\* parseFloat: leading white space is skipped, then the longest prefix that
\* is a decimal literal (sign, digits, '.', digits) is converted; NaN when
\* there is no digit.  Exponents and "Infinity" are not modelled.
ParseFloat(str) ==
    LET s == TrimStart(str)
        signed == s # <<>> /\ Head(s) \in {"-", "+"}
        neg == s # <<>> /\ Head(s) = "-"
        body == IF signed THEN Tail(s) ELSE s
        ip == DigitRun(body)
        rest == SubSeq(body, Len(ip) + 1, Len(body))
        fp == IF rest # <<>> /\ Head(rest) = "." THEN DigitRun(Tail(rest)) ELSE <<>>
        mag == DigitsValue(ip) * Scale + FracValue(fp)
    IN IF ip = <<>> /\ fp = <<>> THEN NaN
       ELSE Num(IF neg THEN 0 - mag ELSE mag)

\* ------------------------------------------------------------------------
\* Map<K, V>: a function whose domain is the set of keys.

EmptyMap == [x \in {} |-> x]
MapHas(m, key) == key \in DOMAIN m
MapSet(m, key, val) ==
    [x \in (DOMAIN m) \cup {key} |-> IF x = key THEN val ELSE m[x]]

\* ------------------------------------------------------------------------
\* AcmiParserService: tokenizeLine and splitKeyValue.

\* tokenizeLine: the comma-separated parts of a line; a double quote toggles
\* inQuotes, and a comma inside quotes is part of the token.  The quote
\* characters stay in the token.
RECURSIVE TokenizeFrom(_, _, _, _)
TokenizeFrom(rest, currentToken, inQuotes, tokens) ==
    IF rest = <<>> THEN Append(tokens, currentToken)
    ELSE LET char == Head(rest)
             q == IF char = "\"" THEN ~inQuotes ELSE inQuotes
         IN IF char = "," /\ ~q
            THEN TokenizeFrom(Tail(rest), <<>>, q, Append(tokens, currentToken))
            ELSE TokenizeFrom(Tail(rest), Append(currentToken, char), q, tokens)

\* A mutation of TokenizeLine: every comma splits.
TokenizeLineAtEveryComma(line) == Split(line, ",")

TokenizeLine(line) == TokenizeFrom(line, <<>>, FALSE, <<>>)

\* splitKeyValue: <<key, value>>, split at the first '='; without '=' the
\* whole string is the key and the value is empty.  A value that starts and
\* ends with a double quote loses them (substring(1, length - 1)).
SplitKeyValue(pair) ==
    LET separatorIndex == IndexOf(pair, "=")
        key == JsSubstring(pair, 0, separatorIndex)
        value == JsSubstring(pair, separatorIndex + 1, Len(pair))
        quote == <<"\"">>
    IN IF separatorIndex = -1 THEN <<pair, <<>>>>
       ELSE IF StartsWith(value, quote) /\ EndsWith(value, quote)
            THEN <<key, JsSubstring(value, 1, Len(value) - 1)>>
            ELSE <<key, value>>

\* ------------------------------------------------------------------------
\* The input: lines of an ACMI text, after fileContent.split(/\r?\n/).

\* 'FileType=text/acmi/tacview'
FileTypeMarker == <<"F", "i", "l", "e", "T", "y", "p", "e", "=", "t", "e", "x", "t", "/", "a", "c", "m", "i", "/", "t", "a", "c", "v", "i", "e", "w">>
\* 'FileVersion=2.2'
LnFileVersion == <<"F", "i", "l", "e", "V", "e", "r", "s", "i", "o", "n", "=", "2", ".", "2">>
\* ''
LnEmpty == <<>>
\* ' //c'
LnComment == <<" ", "/", "/", "c">>
\* '#1'
LnFrame1 == <<"#", "1">>
\* '#2 '
LnFrame2 == <<"#", "2", " ">>
\* '#-1'
LnFrameNeg == <<"#", "-", "1">>
\* '#x'
LnFrameBad == <<"#", "x">>
\* 'ReferenceLongitude=5'
LnRefLon == <<"R", "e", "f", "e", "r", "e", "n", "c", "e", "L", "o", "n", "g", "i", "t", "u", "d", "e", "=", "5">>
\* '-A'
LnRemoveA == <<"-", "A">>
\* '-B'
LnRemoveB == <<"-", "B">>
\* 'A,T=1|2|3'
LnUpdateA == <<"A", ",", "T", "=", "1", "|", "2", "|", "3">>
\* 'A,T=3||1,Color=Red'
LnUpdateANoLat == <<"A", ",", "T", "=", "3", "|", "|", "1", ",", "C", "o", "l", "o", "r", "=", "R", "e", "d">>
\* 'A,T=x|2|3'
LnUpdateANaN == <<"A", ",", "T", "=", "x", "|", "2", "|", "3">>
\* 'B,T=1|2,Name=N'
LnUpdateBNoAlt == <<"B", ",", "T", "=", "1", "|", "2", ",", "N", "a", "m", "e", "=", "N">>

\* The lines a text is made of.
LineAlphabet ==
    { FileTypeMarker, LnFileVersion, LnEmpty, LnComment,
      LnFrame1, LnFrame2, LnFrameNeg, LnFrameBad, LnRefLon,
      LnRemoveA, LnRemoveB,
      LnUpdateA, LnUpdateANoLat, LnUpdateANaN, LnUpdateBNoAlt }

\* ------------------------------------------------------------------------
\* AcmiParserService.parse: the steps of its loop body.

\* A line that is skipped: empty after trim, or a comment.
IsSkipped(trimmedLine) ==
    trimmedLine = <<>> \/ StartsWith(trimmedLine, <<"/", "/">>)

\* A mutation of HeaderRejected: every line that is not the marker is
\* rejected, also after the marker has been accepted.
HeaderRejectedAlways(validated, trimmedLine) == trimmedLine # FileTypeMarker

\* The throw of parse: the first significant line is not the marker.
HeaderRejected(validated, trimmedLine) ==
    ~validated /\ trimmedLine # FileTypeMarker

\* A mutation of HeaderAccepted: a prefix match instead of equality.
HeaderAcceptedByPrefix(validated, trimmedLine) ==
    ~validated /\ StartsWith(trimmedLine, SubSeq(FileTypeMarker, 1, 4))

HeaderAccepted(validated, trimmedLine) ==
    ~validated /\ trimmedLine = FileTypeMarker

\* The keys of the header switch.
KeyFileVersion == <<"F", "i", "l", "e", "V", "e", "r", "s", "i", "o", "n">>
KeyReferenceTime == <<"R", "e", "f", "e", "r", "e", "n", "c", "e", "T", "i", "m", "e">>
KeyReferenceLongitude == <<"R", "e", "f", "e", "r", "e", "n", "c", "e", "L", "o", "n", "g", "i", "t", "u", "d", "e">>
KeyReferenceLatitude == <<"R", "e", "f", "e", "r", "e", "n", "c", "e", "L", "a", "t", "i", "t", "u", "d", "e">>

IsFrameLine(trimmedLine) == StartsWith(trimmedLine, <<"#">>)
IsRemovalLine(trimmedLine) == StartsWith(trimmedLine, <<"-">>)

\* if (startTime === null) startTime = currentTime
FirstTime(start, t) == IF start = Null THEN t ELSE start

\* new Date(text): the Date built from a text; new Date(0) is the epoch.  A
\* Date object is truthy whatever it holds (an invalid date included).
DateOf(src) == [k |-> "date", v |-> 0, src |-> src]
EpochDate == DateOf(<<"0">>)

\* { id, properties: new Map(), states: [], removedAtTime: null }
NewObject(id) ==
    [id |-> id, properties |-> EmptyMap, states |-> <<>>, removedAtTime |-> Null]

\* values[i] after value.split('|').map(v => v ? parseFloat(v) : undefined),
\* 1-based; undefined past the end (array destructuring).
TField(values, i) ==
    IF i > Len(values) \/ values[i] = <<>> THEN Undefined
    ELSE ParseFloat(values[i])

\* A mutation of CoreDefined: the latitude is not looked at.
CoreDefinedNoLat(lon, lat, alt) == lon # Undefined /\ alt # Undefined

\* lon !== undefined && lat !== undefined && alt !== undefined
CoreDefined(lon, lat, alt) ==
    lon # Undefined /\ lat # Undefined /\ alt # Undefined

\* A mutation of PushState: states.unshift(state).
UnshiftState(states, state) == <<state>> \o states

\* obj.states.push(state)
PushState(states, state) == Append(states, state)

\* One key=value part of an update line, applied to obj at time t.
ApplyPart(obj, part, t) ==
    LET kv == SplitKeyValue(part)
        key == kv[1]
        value == kv[2]
        values == Split(value, "|")
        lon == TField(values, 1)
        lat == TField(values, 2)
        alt == TField(values, 3)
        state == [time |-> t, longitude |-> lon, latitude |-> lat,
                  altitude |-> alt, roll |-> TField(values, 4),
                  pitch |-> TField(values, 5), yaw |-> TField(values, 6)]
    IN IF key = <<>> THEN obj
       ELSE IF key = <<"T">>
            THEN IF CoreDefined(lon, lat, alt)
                 THEN [obj EXCEPT !.states = PushState(@, state)]
                 ELSE obj
            ELSE [obj EXCEPT !.properties = MapSet(@, key, value)]

\* for (const part of parts.slice(1)) ...
RECURSIVE ApplyParts(_, _, _)
ApplyParts(obj, parts, t) ==
    IF parts = <<>> THEN obj
    ELSE ApplyParts(ApplyPart(obj, Head(parts), t), Tail(parts), t)

\* An object update line: the object of the first token, created when
\* unseen, takes the remaining tokens.
UpdateObjects(objs, trimmedLine, t) ==
    LET parts == TokenizeLine(trimmedLine)
        id == parts[1]
        obj == IF MapHas(objs, id) THEN objs[id] ELSE NewObject(id)
    IN MapSet(objs, id, ApplyParts(obj, Tail(parts), t))

\* A mutation of RemoveObject: objects.delete(id).
RemoveObjectDeleting(objs, id, t) == [x \in (DOMAIN objs) \ {id} |-> objs[x]]

\* A mutation of RemoveObject: an unknown id gets an object.
RemoveObjectCreating(objs, id, t) ==
    MapSet(objs, id,
           [(IF MapHas(objs, id) THEN objs[id] ELSE NewObject(id))
               EXCEPT !.removedAtTime = t])

\* A mutation of RemoveObject: only an object with states is marked.
RemoveObjectWithStates(objs, id, t) ==
    IF MapHas(objs, id) /\ objs[id].states # <<>>
    THEN [objs EXCEPT ![id].removedAtTime = t]
    ELSE objs

\* const obj = objects.get(id); if (obj) obj.removedAtTime = currentTime
RemoveObject(objs, id, t) ==
    IF MapHas(objs, id) THEN [objs EXCEPT ![id].removedAtTime = t] ELSE objs

\* ------------------------------------------------------------------------
\* The state of one call of parse.

VARIABLES
    pc,                 \* "running", "returned" or "thrown"
    text,               \* the lines taken so far, in order
    fileTypeValidated,
    fileVersion,
    referenceTime,
    referenceLongitude,
    referenceLatitude,
    objects,
    currentTime,
    startTime,
    endTime,
    inHeader,
    dataset             \* the AcmiData returned; NoDataset until then

\* The state of the SimulationService: its signals and private fields.
VARIABLES
    time,
    isPlaying,
    playbackSpeed,
    duration,
    isDataLoaded,
    acmiData,           \* the AcmiData held, or Null
    enuOrigin,          \* what originEcef and enuMatrix were built from, or Null
    interpolated,       \* the value of the interpolatedStates signal
    op                  \* the operation called last

\* The state of the AppComponent: its signals, and the calls of onFileChange.
VARIABLES
    fileName,           \* the file name shown, or NoFileName
    isLoading,
    errorMessage,       \* whether an error message is shown
    loads               \* for each call of onFileChange, where it stands

pvars ==
    <<pc, text, fileTypeValidated, fileVersion, referenceTime,
      referenceLongitude, referenceLatitude, objects, currentTime,
      startTime, endTime, inHeader, dataset>>

playback == <<time, isPlaying, playbackSpeed, duration, isDataLoaded>>
engine == <<playback, acmiData, enuOrigin>>
svars == <<engine, interpolated, op>>

avars == <<fileName, isLoading, errorMessage, loads>>

vars == <<pvars, svars, avars>>

\* The interpolatedStates signal before it is read, and after a signal it
\* depends on (acmiData, time) has changed: to be recomputed.
Dirty == [fresh |-> FALSE, states |-> EmptyMap]

\* The SimulationService after construction.
EngineInit ==
    /\ time = Num(0)
    /\ isPlaying = FALSE
    /\ playbackSpeed = Num(Scale)
    /\ duration = Num(0)
    /\ isDataLoaded = FALSE
    /\ acmiData = Null
    /\ enuOrigin = Null
    /\ interpolated = Dirty
    /\ op = [name |-> "new", arg |-> Null]

\* The number of calls of onFileChange followed.
MaxLoads == 2
Loads == 1..MaxLoads

\* fileName: null, or the name of a file.
NoFileName == [shown |-> FALSE, name |-> ""]
FileNameOf(name) == [shown |-> TRUE, name |-> name]

\* A call of onFileChange that has not happened.
NoFile == [name |-> "", kind |-> "text", text |-> <<>>, parsed |-> Null]
NotCalled == [pc |-> "idle", file |-> NoFile, order |-> 0, overlap |-> FALSE]

\* The AppComponent after construction.
AppInit ==
    /\ fileName = NoFileName
    /\ isLoading = FALSE
    /\ errorMessage = FALSE
    /\ loads = [l \in Loads |-> NotCalled]

header == <<fileVersion, referenceTime, referenceLongitude, referenceLatitude>>
frame == <<currentTime, startTime, endTime, inHeader>>

NoDataset == Null

Init ==
    /\ pc = "running"
    /\ text = <<>>
    /\ fileTypeValidated = FALSE
    /\ fileVersion = <<>>
    /\ referenceTime = Null
    /\ referenceLongitude = Num(0)
    /\ referenceLatitude = Num(0)
    /\ objects = EmptyMap
    /\ currentTime = Num(0)
    /\ startTime = Null
    /\ endTime = Num(0)
    /\ inHeader = TRUE
    /\ dataset = NoDataset
    /\ EngineInit
    /\ AppInit

\* The loop takes the next line of the text.
Take(line) ==
    /\ pc = "running"
    /\ Len(text) < MaxLines
    /\ text' = Append(text, line)
    /\ UNCHANGED <<svars, avars>>

\* if (!trimmedLine || trimmedLine.startsWith('//')) continue
SkipLine(line) ==
    /\ Take(line)
    /\ IsSkipped(Trim(line))
    /\ UNCHANGED <<pc, fileTypeValidated, header, objects, frame, dataset>>

\* The first significant line is the marker: fileTypeValidated = true.
AcceptFileType(line) ==
    /\ Take(line)
    /\ ~IsSkipped(Trim(line))
    /\ HeaderAccepted(fileTypeValidated, Trim(line))
    /\ fileTypeValidated' = TRUE
    /\ UNCHANGED <<pc, header, objects, frame, dataset>>

\* The first significant line is anything else: throw new Error(...).
RejectFileType(line) ==
    /\ Take(line)
    /\ ~IsSkipped(Trim(line))
    /\ HeaderRejected(fileTypeValidated, Trim(line))
    /\ pc' = "thrown"
    /\ UNCHANGED <<fileTypeValidated, header, objects, frame, dataset>>

\* A mutation of FrameLine: the frame marker does not end the header.
FrameLineKeepsHeader(line) ==
    /\ Take(line)
    /\ ~IsSkipped(Trim(line))
    /\ fileTypeValidated
    /\ IsFrameLine(Trim(line))
    /\ LET t == ParseFloat(JsSubstring(Trim(line), 1, Len(Trim(line))))
       IN /\ currentTime' = t
          /\ startTime' = FirstTime(startTime, t)
          /\ endTime' = JsMax(endTime, t)
    /\ UNCHANGED <<pc, fileTypeValidated, header, objects, inHeader, dataset>>

\* A frame marker '#<time>'.
FrameLine(line) ==
    /\ Take(line)
    /\ ~IsSkipped(Trim(line))
    /\ fileTypeValidated
    /\ IsFrameLine(Trim(line))
    /\ LET t == ParseFloat(JsSubstring(Trim(line), 1, Len(Trim(line))))
       IN /\ inHeader' = FALSE
          /\ currentTime' = t
          /\ startTime' = FirstTime(startTime, t)
          /\ endTime' = JsMax(endTime, t)
    /\ UNCHANGED <<pc, fileTypeValidated, header, objects, dataset>>

\* A header line: any other line before the first frame marker.
HeaderLine(line) ==
    /\ Take(line)
    /\ ~IsSkipped(Trim(line))
    /\ fileTypeValidated
    /\ ~IsFrameLine(Trim(line))
    /\ inHeader
    /\ LET kv == SplitKeyValue(Trim(line))
           key == kv[1]
           value == kv[2]
       IN /\ fileVersion' =
                IF key = KeyFileVersion THEN value ELSE fileVersion
          /\ referenceTime' =
                IF key = KeyReferenceTime
                THEN DateOf(Trim(value) \o <<"Z">>)
                ELSE referenceTime
          /\ referenceLongitude' =
                IF key = KeyReferenceLongitude
                THEN ParseFloat(value)
                ELSE referenceLongitude
          /\ referenceLatitude' =
                IF key = KeyReferenceLatitude
                THEN ParseFloat(value)
                ELSE referenceLatitude
    /\ UNCHANGED <<pc, fileTypeValidated, objects, frame, dataset>>

\* A removal line '-<id>'.
RemovalLine(line) ==
    /\ Take(line)
    /\ ~IsSkipped(Trim(line))
    /\ fileTypeValidated
    /\ ~IsFrameLine(Trim(line))
    /\ ~inHeader
    /\ IsRemovalLine(Trim(line))
    /\ objects' =
          RemoveObject(objects, JsSubstring(Trim(line), 1, Len(Trim(line))),
                       currentTime)
    /\ UNCHANGED <<pc, fileTypeValidated, header, frame, dataset>>

\* A mutation of UpdateLine: update lines are taken in the header too.
UpdateLineInHeader(line) ==
    /\ Take(line)
    /\ ~IsSkipped(Trim(line))
    /\ fileTypeValidated
    /\ ~IsFrameLine(Trim(line))
    /\ ~IsRemovalLine(Trim(line))
    /\ objects' = UpdateObjects(objects, Trim(line), currentTime)
    /\ UNCHANGED <<pc, fileTypeValidated, header, frame, dataset>>

\* An object creation/update line.
UpdateLine(line) ==
    /\ Take(line)
    /\ ~IsSkipped(Trim(line))
    /\ fileTypeValidated
    /\ ~IsFrameLine(Trim(line))
    /\ ~inHeader
    /\ ~IsRemovalLine(Trim(line))
    /\ objects' = UpdateObjects(objects, Trim(line), currentTime)
    /\ UNCHANGED <<pc, fileTypeValidated, header, frame, dataset>>

\* The end of the text: the defaults are applied and the dataset returned.
Return ==
    /\ pc = "running"
    /\ pc' = "returned"
    /\ dataset' =
          [objects |-> objects,
           startTime |-> IF startTime = Null THEN Num(0) ELSE startTime,
           endTime |-> endTime,
           referenceTime |-> IF referenceTime = Null THEN EpochDate ELSE referenceTime,
           referenceLongitude |-> referenceLongitude,
           referenceLatitude |-> referenceLatitude]
    /\ UNCHANGED <<text, fileTypeValidated, header, objects, frame>>
    /\ UNCHANGED <<svars, avars>>

Next ==
    \/ \E line \in LineAlphabet : SkipLine(line)
    \/ \E line \in LineAlphabet : AcceptFileType(line)
    \/ \E line \in LineAlphabet : RejectFileType(line)
    \/ \E line \in LineAlphabet : FrameLine(line)
    \/ \E line \in LineAlphabet : HeaderLine(line)
    \/ \E line \in LineAlphabet : RemovalLine(line)
    \/ \E line \in LineAlphabet : UpdateLine(line)
    \/ Return

Spec == Init /\ [][Next]_vars

\* ------------------------------------------------------------------------
\* What the claims are stated in: the text taken so far, read on its own.

Last(s) == s[Len(s)]
IsSignificant(line) == ~IsSkipped(Trim(line))
Significant(t) == SelectSeq(t, IsSignificant)

\* The text has the file-type marker as its first significant line.
HeaderPresent(t) ==
    Significant(t) # <<>> /\ Trim(Significant(t)[1]) = FileTypeMarker

IsFrameText(line) == Len(Trim(line)) > 0 /\ Trim(line)[1] = "#"
FrameTimesOf(t) ==
    LET fl == SelectSeq(t, IsFrameText)
    IN [i \in 1..Len(fl) |-> ParseFloat(Tail(Trim(fl[i])))]

SetMax(S) == CHOOSE m \in S : \A x \in S : x <= m

\* b is less than a, as numbers (false when either is not a number).
Decreases(a, b) == IsNum(a) /\ IsNum(b) /\ b.v < a.v

\* No element of the sequence of numbers is less than an earlier one.
NeverDecreases(ts) ==
    \A i, j \in 1..Len(ts) : i < j => ~Decreases(ts[i], ts[j])

SeriesTimes(obj) == [i \in 1..Len(obj.states) |-> obj.states[i].time]

\* The step takes a line that is handled as a removal / as an update.
TakesLine == pc = "running" /\ pc' = "running" /\ Len(text') = Len(text) + 1
TakenLine == Trim(Last(text'))
TakesDataLine ==
    /\ TakesLine
    /\ fileTypeValidated
    /\ ~inHeader
    /\ TakenLine # <<>>
    /\ TakenLine[1] # "#"
    /\ ~(Len(TakenLine) > 1 /\ TakenLine[1] = "/" /\ TakenLine[2] = "/")
TakesRemoval == TakesDataLine /\ TakenLine[1] = "-"
TakesUpdate == TakesDataLine /\ TakenLine[1] # "-"

IdA == <<"A">>
IdB == <<"B">>

\* ------------------------------------------------------------------------
\* C1: if the first significant line of the text is not the file-type
\* marker, parse has thrown and there is no dataset.
C1_BadFirstLineThrows ==
    (Significant(text) # <<>> /\ ~HeaderPresent(text))
        => (pc = "thrown" /\ dataset = NoDataset)

\* A text whose first significant line, after skipped ones, is not the marker.
C1_Witness ==
    /\ Len(text) > 1
    /\ Len(Significant(text)) = 1
    /\ ~HeaderPresent(text)
    /\ pc = "thrown"

\* C2 (as claimed): whenever parse has ended on a text without the
\* file-type header, the empty and the comment-only text included, it has
\* thrown and returned no dataset.
C2_MissingHeaderThrows ==
    (pc # "running" /\ ~HeaderPresent(text))
        => (pc = "thrown" /\ dataset = NoDataset)

\* C3: once the file-type header has been accepted parse never throws:
\* whatever lines follow, it can run to the end of the text, and what it
\* returns there is a dataset.
C3_NoThrowAfterHeader ==
    fileTypeValidated =>
        /\ pc # "thrown"
        /\ pc = "returned" => dataset # NoDataset
        /\ pc = "running" => ENABLED Return

\* A dataset returned for a text with a malformed frame marker and a
\* position whose longitude is not a number.
C3_Witness ==
    /\ pc = "returned"
    /\ fileTypeValidated
    /\ \E i \in 1..Len(text) : text[i] = LnFrameBad
    /\ \E i \in 1..Len(text) : text[i] = LnUpdateANaN

\* C4 (as claimed): startTime is the time of the first frame marker and
\* endTime the maximum time over all frame markers, for numeric times of
\* either sign; both are 0 without a frame marker.
C4_EndTimeIsMaxOfFrames ==
    LET ft == FrameTimesOf(text)
    IN (pc = "returned" /\ \A i \in 1..Len(ft) : IsNum(ft[i])) =>
          IF ft = <<>>
          THEN dataset.startTime = Num(0) /\ dataset.endTime = Num(0)
          ELSE /\ dataset.startTime = ft[1]
               /\ dataset.endTime = Num(SetMax({ft[i].v : i \in 1..Len(ft)}))

\* C4 (amended): startTime is the time of the first frame marker and endTime
\* the maximum of 0 and the times of all frame markers, so 0 when they are
\* all negative; a frame marker whose time is not a number makes endTime
\* not-a-number; both are 0 without a frame marker.
C4_EndTimeIsMaxOfZeroAndFrames ==
    LET ft == FrameTimesOf(text)
    IN pc = "returned" =>
          /\ dataset.startTime = IF ft = <<>> THEN Num(0) ELSE ft[1]
          /\ dataset.endTime =
                IF \E i \in 1..Len(ft) : IsNaN(ft[i]) THEN NaN
                ELSE Num(SetMax({0} \cup {ft[i].v : i \in 1..Len(ft)}))

\* A dataset of a text with a later frame marker earlier in time than the
\* first, and a negative one.
C4_Witness ==
    LET ft == FrameTimesOf(text)
    IN /\ pc = "returned"
       /\ Len(ft) >= 2
       /\ \A i \in 1..Len(ft) : IsNum(ft[i])
       /\ ft[2].v < ft[1].v
       /\ \E i \in 1..Len(ft) : ft[i].v < 0

\* ------------------------------------------------------------------------
\* The tokens of an update line, read on their own.

\* The parts after the id, as <<key, value>> pairs.
PartsOf(line) ==
    LET parts == TokenizeLine(line)
    IN [i \in 1..(Len(parts) - 1) |-> SplitKeyValue(parts[i + 1])]

IsTPart(kv) == kv[1] = <<"T">>

\* A T value without a longitude, a latitude or an altitude: fewer than
\* three fields, or one of the first three empty.
LacksCore(value) ==
    LET f == Split(value, "|")
    IN Len(f) < 3 \/ f[1] = <<>> \/ f[2] = <<>> \/ f[3] = <<>>

SeriesLen(objs, id) == IF id \in DOMAIN objs THEN Len(objs[id].states) ELSE 0

\* ------------------------------------------------------------------------
\* C5: an update line whose T value lacks a longitude, latitude or altitude
\* appends no TimeState (the object's series keeps its length), and the
\* other key=value tokens of the line are stored as properties.
C5_Step ==
    LET id == TokenizeLine(TakenLine)[1]
        kvs == PartsOf(TakenLine)
    IN (/\ TakesUpdate
        /\ \E i \in 1..Len(kvs) : IsTPart(kvs[i])
        /\ \A i \in 1..Len(kvs) : IsTPart(kvs[i]) => LacksCore(kvs[i][2]))
       => /\ id \in DOMAIN objects'
          /\ SeriesLen(objects', id) = SeriesLen(objects, id)
          /\ \A i \in 1..Len(kvs) :
                (/\ ~IsTPart(kvs[i])
                 /\ kvs[i][1] # <<>>
                 /\ \A j \in (i + 1)..Len(kvs) : kvs[j][1] # kvs[i][1])
                => /\ kvs[i][1] \in DOMAIN objects'[id].properties
                   /\ objects'[id].properties[kvs[i][1]] = kvs[i][2]

C5_IncompleteTAppendsNothing == [][C5_Step]_vars

\* 'A,T=3||1,Color=Red' has just been taken for an object that has a state.
C5_Witness ==
    /\ pc = "running"
    /\ ~inHeader
    /\ text # <<>>
    /\ Last(text) = LnUpdateANoLat
    /\ IdA \in DOMAIN objects
    /\ Len(objects[IdA].states) = 1
    /\ <<"C", "o", "l", "o", "r">> \in DOMAIN objects[IdA].properties

\* C6 (as claimed): every TimeState of every object of a returned dataset
\* has a numeric longitude, latitude and altitude.
C6_StatesAreNumeric ==
    pc = "returned" =>
        \A id \in DOMAIN dataset.objects :
            \A i \in 1..Len(dataset.objects[id].states) :
                LET st == dataset.objects[id].states[i]
                IN IsNum(st.longitude) /\ IsNum(st.latitude) /\ IsNum(st.altitude)

\* C7 (as claimed): in every returned dataset the times of every object's
\* series never decrease in insertion order, whatever the text.
C7_SeriesNeverDecreases ==
    pc = "returned" =>
        \A id \in DOMAIN dataset.objects :
            NeverDecreases(SeriesTimes(dataset.objects[id]))

\* C7 (amended): in every dataset returned for a text whose frame-marker
\* times never decrease, the times of every object's series never decrease
\* in insertion order.
C7_SeriesFollowsFrames ==
    (pc = "returned" /\ NeverDecreases(FrameTimesOf(text))) =>
        \A id \in DOMAIN dataset.objects :
            NeverDecreases(SeriesTimes(dataset.objects[id]))

\* A dataset of a chronological text with a series over two frames.
C7_Witness ==
    /\ pc = "returned"
    /\ NeverDecreases(FrameTimesOf(text))
    /\ IdA \in DOMAIN dataset.objects
    /\ Len(dataset.objects[IdA].states) = 2
    /\ Decreases(dataset.objects[IdA].states[2].time,
                 dataset.objects[IdA].states[1].time)

\* C8: a removal line '-<id>' after the first frame marker sets
\* removedAtTime of the object with that id to the current frame time when
\* the id is known, and changes nothing of the dataset when it is unknown.
C8_Step ==
    LET id == Tail(TakenLine)
    IN TakesRemoval =>
          /\ IF id \in DOMAIN objects
             THEN objects' = [objects EXCEPT ![id].removedAtTime = currentTime]
             ELSE objects' = objects
          /\ UNCHANGED <<header, frame, dataset>>

C8_RemovalMarksKnownId == [][C8_Step]_vars

\* '-A' has just been taken with A and B known: A is marked, B is not.
C8_Witness ==
    /\ pc = "running"
    /\ ~inHeader
    /\ text # <<>>
    /\ Last(text) = LnRemoveA
    /\ IdA \in DOMAIN objects
    /\ IdB \in DOMAIN objects
    /\ IsNum(currentTime) /\ currentTime.v > 0
    /\ objects[IdA].removedAtTime = currentTime
    /\ objects[IdB].removedAtTime = Null

\* C9 (as claimed): a removal line for an id without a TimeState so far,
\* never seen or known only through property updates, leaves the dataset
\* as it was.
C9_OriginalStep ==
    LET id == Tail(TakenLine)
    IN (TakesRemoval /\ SeriesLen(objects, id) = 0) =>
          UNCHANGED <<objects, header, frame, dataset>>

C9_RemovalWithoutStateIsNoOp == [][C9_OriginalStep]_vars

\* C9 (amended): a removal line for an id never seen leaves the dataset as
\* it was; for an id known only through property updates it sets that
\* object's removedAtTime to the current frame time and changes nothing
\* else.
C9_AmendedStep ==
    LET id == Tail(TakenLine)
    IN (TakesRemoval /\ SeriesLen(objects, id) = 0) =>
          /\ UNCHANGED <<header, frame, dataset>>
          /\ DOMAIN objects' = DOMAIN objects
          /\ \A x \in DOMAIN objects : x # id => objects'[x] = objects[x]
          /\ id \in DOMAIN objects =>
                /\ objects'[id].removedAtTime = currentTime
                /\ objects'[id].states = <<>>
                /\ objects'[id].properties = objects[id].properties
                /\ objects'[id].id = id

C9_RemovalOfUnseenIdIsNoOp == [][C9_AmendedStep]_vars

\* '-B' has just been taken with B known only through a property.
C9_Witness ==
    /\ pc = "running"
    /\ ~inHeader
    /\ text # <<>>
    /\ Last(text) = LnRemoveB
    /\ IdB \in DOMAIN objects
    /\ objects[IdB].states = <<>>
    /\ DOMAIN objects[IdB].properties # {}
    /\ objects[IdB].removedAtTime = currentTime

\* C10: removal is a marker, not a deletion: a removal line leaves every
\* object, its properties and its TimeStates in place, no step takes an
\* object out of the map or sets a non-null removedAtTime back to null, and
\* the dataset returned holds the objects as they are.
C10_Step ==
    /\ \A id \in DOMAIN objects :
          /\ id \in DOMAIN objects'
          /\ objects[id].removedAtTime # Null =>
                objects'[id].removedAtTime # Null
          /\ TakesRemoval =>
                /\ objects'[id].properties = objects[id].properties
                /\ objects'[id].states = objects[id].states
    /\ pc' = "returned" => dataset'.objects = objects

C10_RemovalIsAMarker == [][C10_Step]_vars

\* A has a state, was removed, and an update line for it has been taken
\* since: it is still marked and its states are still there.
C10_Witness ==
    /\ pc = "returned"
    /\ Len(text) > 2
    /\ \E i \in 1..(Len(text) - 1) : text[i] = LnRemoveA
    /\ Last(text) = LnUpdateA
    /\ IdA \in DOMAIN dataset.objects
    /\ Len(dataset.objects[IdA].states) = 2
    /\ dataset.objects[IdA].removedAtTime # Null

\* ------------------------------------------------------------------------
\* C11: header fields are recognised only before the first frame marker:
\* once the text taken holds a frame marker, no line changes referenceTime,
\* referenceLongitude or referenceLatitude, and the dataset returned holds
\* them as they were at the first frame marker.
SeenFrame == \E i \in 1..Len(text) : IsFrameText(text[i])

C11_Step ==
    SeenFrame =>
        /\ UNCHANGED <<referenceTime, referenceLongitude, referenceLatitude>>
        /\ pc' = "returned" =>
              /\ dataset'.referenceLongitude = referenceLongitude
              /\ dataset'.referenceLatitude = referenceLatitude
              /\ dataset'.referenceTime =
                    IF referenceTime = Null THEN EpochDate ELSE referenceTime

C11_HeaderClosedByFrame == [][C11_Step]_vars

\* 'ReferenceLongitude=5' taken after a frame marker: the dataset keeps 0.
C11_Witness ==
    /\ pc = "returned"
    /\ \E i, j \in 1..Len(text) :
          i < j /\ IsFrameText(text[i]) /\ text[j] = LnRefLon
    /\ dataset.referenceLongitude = Num(0)

\* ------------------------------------------------------------------------
\* AcmiParserService.parse as a function of the whole text: the loop body
\* folded over the lines, with the operators the line actions use.  This is
\* where the datasets handed to the simulation engine come from.

ParseStart ==
    [thrown |-> FALSE, fileTypeValidated |-> FALSE,
     referenceTime |-> Null, referenceLongitude |-> Num(0),
     referenceLatitude |-> Num(0), objects |-> EmptyMap,
     currentTime |-> Num(0), startTime |-> Null, endTime |-> Num(0),
     inHeader |-> TRUE]

\* One pass of the loop body over a line.
ParseLine(st, line) ==
    LET trimmedLine == Trim(line)
        t == ParseFloat(JsSubstring(trimmedLine, 1, Len(trimmedLine)))
        kv == SplitKeyValue(trimmedLine)
    IN IF st.thrown \/ IsSkipped(trimmedLine) THEN st
       ELSE IF HeaderAccepted(st.fileTypeValidated, trimmedLine)
            THEN [st EXCEPT !.fileTypeValidated = TRUE]
       ELSE IF HeaderRejected(st.fileTypeValidated, trimmedLine)
            THEN [st EXCEPT !.thrown = TRUE]
       ELSE IF IsFrameLine(trimmedLine)
            THEN [st EXCEPT !.inHeader = FALSE,
                            !.currentTime = t,
                            !.startTime = FirstTime(@, t),
                            !.endTime = JsMax(@, t)]
       ELSE IF st.inHeader
            THEN [st EXCEPT
                    !.referenceTime =
                        IF kv[1] = KeyReferenceTime
                        THEN DateOf(Trim(kv[2]) \o <<"Z">>) ELSE @,
                    !.referenceLongitude =
                        IF kv[1] = KeyReferenceLongitude
                        THEN ParseFloat(kv[2]) ELSE @,
                    !.referenceLatitude =
                        IF kv[1] = KeyReferenceLatitude
                        THEN ParseFloat(kv[2]) ELSE @]
       ELSE IF IsRemovalLine(trimmedLine)
            THEN [st EXCEPT !.objects =
                    RemoveObject(@, JsSubstring(trimmedLine, 1, Len(trimmedLine)),
                                 st.currentTime)]
       ELSE [st EXCEPT !.objects =
                    UpdateObjects(@, trimmedLine, st.currentTime)]

RECURSIVE ParseLines(_, _)
ParseLines(st, lines) ==
    IF lines = <<>> THEN st
    ELSE ParseLines(ParseLine(st, Head(lines)), Tail(lines))

\* The AcmiData parse returns for the text; NoDataset when it throws.
DatasetOf(lines) ==
    LET st == ParseLines(ParseStart, lines)
    IN IF st.thrown THEN NoDataset
       ELSE [objects |-> st.objects,
             startTime |-> IF st.startTime = Null THEN Num(0) ELSE st.startTime,
             endTime |-> st.endTime,
             referenceTime |->
                 IF st.referenceTime = Null THEN EpochDate ELSE st.referenceTime,
             referenceLongitude |-> st.referenceLongitude,
             referenceLatitude |-> st.referenceLatitude]

\* ------------------------------------------------------------------------
\* JavaScript arithmetic on modelled numbers.  A product or quotient of two
\* fixed-point numbers is rounded down to the model's resolution; the
\* inputs of the engine below are chosen so that every result is exact.

JsAdd(a, b) == IF IsNaN(a) \/ IsNaN(b) THEN NaN ELSE Num(a.v + b.v)
JsSub(a, b) == IF IsNaN(a) \/ IsNaN(b) THEN NaN ELSE Num(a.v - b.v)
JsMul(a, b) == IF IsNaN(a) \/ IsNaN(b) THEN NaN ELSE Num((a.v * b.v) \div Scale)
\* a / b for b # 0
JsDiv(a, b) == IF IsNaN(a) \/ IsNaN(b) THEN NaN ELSE Num((a.v * Scale) \div b.v)

\* Math.min(a, b): NaN if either is NaN.
JsMin(a, b) ==
    IF IsNaN(a) \/ IsNaN(b) THEN NaN
    ELSE IF a.v <= b.v THEN a ELSE b

\* a >= b, a > b, a < b: false when either is NaN.
JsGe(a, b) == IsNum(a) /\ IsNum(b) /\ a.v >= b.v
JsGt(a, b) == IsNum(a) /\ IsNum(b) /\ a.v > b.v
JsLt(a, b) == IsNum(a) /\ IsNum(b) /\ a.v < b.v

\* ------------------------------------------------------------------------
\* SimulationService.getInterpolatedState.
\*
\* The trigonometry of wgs84ToEcef / ecefToEnu and the quaternions of
\* three.js are not computed: a local position is the term Enu(...) of the
\* geodetic point and the origin, an orientation the term of the Euler
\* angles it is built from, so two of them are equal when built from equal
\* arguments.

ColorKey == <<"C", "o", "l", "o", "r">>
Gray == <<"g", "r", "a", "y">>
Cyan == <<"c", "y", "a", "n">>

\* wgs84ToEcef(lat, lon, alt).applyMatrix4(enuMatrix)
Enu(lat, lon, alt, origin) ==
    [k |-> "enu", lat |-> lat, lon |-> lon, alt |-> alt, origin |-> origin]

\* x: 0, y: 0, z: 0 (also vX, vY, vZ)
ZeroVector == [k |-> "vector", x |-> 0, y |-> 0, z |-> 0]

\* qW: 1, qX: 0, qY: 0, qZ: 0
IdentityQuaternion == [k |-> "quaternion", w |-> 1, x |-> 0, y |-> 0, z |-> 0]

\* s.roll ?? 0
OrZero(x) == IF x = Undefined THEN Num(0) ELSE x

\* eulerToQuaternion(roll ?? 0, pitch ?? 0, yaw ?? 0): the rotation by zero
\* angles is the identity.
EulerToQuaternion(st) ==
    LET e == <<OrZero(st.roll), OrZero(st.pitch), OrZero(st.yaw)>>
    IN IF e = <<Num(0), Num(0), Num(0)>> THEN IdentityQuaternion
       ELSE [k |-> "euler", roll |-> e[1], pitch |-> e[2], yaw |-> e[3]]

\* slerpQuaternion(q1, q2, t): q1 at t = 0, q2 at t = 1, q between q and q.
SlerpQuaternion(q1, q2, t) ==
    IF t = Num(0) \/ q1 = q2 THEN q1
    ELSE IF t = Num(Scale) THEN q2
    ELSE [k |-> "slerp", q1 |-> q1, q2 |-> q2, t |-> t]

\* A mutation of IsActive: still active at the removal time itself.
IsActiveAtRemoval(obj, t) ==
    /\ Len(obj.states) > 0
    /\ JsGe(t, obj.states[1].time)
    /\ (obj.removedAtTime = Null \/ ~JsGt(t, obj.removedAtTime))

\* const isActive = ...
IsActive(obj, t) ==
    /\ Len(obj.states) > 0
    /\ JsGe(t, obj.states[1].time)
    /\ (obj.removedAtTime = Null \/ JsLt(t, obj.removedAtTime))

\* obj.states.findIndex(s => s.time > time), 0-based, -1 when there is none.
FindIndex(states, t) ==
    IF \E n \in 1..Len(states) : JsGt(states[n].time, t)
    THEN (CHOOSE n \in 1..Len(states) :
             /\ JsGt(states[n].time, t)
             /\ \A m \in 1..(n - 1) : ~JsGt(states[m].time, t)) - 1
    ELSE -1

\* The index i after 'if (i === -1) i = obj.states.length'.
BracketIndex(states, t) ==
    IF FindIndex(states, t) = -1 THEN Len(states) ELSE FindIndex(states, t)

\* A mutation of S1Index: s1 is always the first sample.
S1IndexFirst(states, t) == 0

\* The 0-based indices of s1 and s2.
S1Index(states, t) ==
    IF BracketIndex(states, t) - 1 > 0 THEN BracketIndex(states, t) - 1 ELSE 0
S2Index(states, t) ==
    IF Len(states) - 1 < BracketIndex(states, t)
    THEN Len(states) - 1
    ELSE BracketIndex(states, t)

S1(states, t) == states[S1Index(states, t) + 1]
S2(states, t) == states[S2Index(states, t) + 1]

\* const timeDelta = s2.time - s1.time
TimeDelta(states, t) == JsSub(S2(states, t).time, S1(states, t).time)

\* const t = timeDelta === 0 ? 1 : (time - s1.time) / timeDelta
Fraction(states, t) ==
    IF TimeDelta(states, t) = Num(0) THEN Num(Scale)
    ELSE IF IsNaN(TimeDelta(states, t)) THEN NaN
    ELSE JsDiv(JsSub(t, S1(states, t).time), TimeDelta(states, t))

\* A mutation of Lerp: the interpolation starts from the second sample.
LerpFromEnd(a, b, f) == JsAdd(b, JsMul(JsSub(b, a), f))

\* a + (b - a) * t
Lerp(a, b, f) == JsAdd(a, JsMul(JsSub(b, a), f))

\* if (timeDelta > 0)
Moving(timeDelta) == JsGt(timeDelta, Num(0))

\* The pose returned for an inactive object.
DefaultState(obj) ==
    [id |-> obj.id, position |-> ZeroVector,
     orientation |-> IdentityQuaternion, velocity |-> ZeroVector,
     color |-> Gray, isActive |-> FALSE, speed |-> Num(0),
     verticalSpeed |-> Num(0), heading |-> Num(0)]

\* The pose of an active object.
ActiveState(obj, t, origin) ==
    LET s1 == S1(obj.states, t)
        s2 == S2(obj.states, t)
        timeDelta == TimeDelta(obj.states, t)
        f == Fraction(obj.states, t)
        lon == Lerp(s1.longitude, s2.longitude, f)
        lat == Lerp(s1.latitude, s2.latitude, f)
        alt == Lerp(s1.altitude, s2.altitude, f)
        q == SlerpQuaternion(EulerToQuaternion(s1), EulerToQuaternion(s2), f)
        p1 == Enu(s1.latitude, s1.longitude, s1.altitude, origin)
        p2 == Enu(s2.latitude, s2.longitude, s2.altitude, origin)
        color == IF MapHas(obj.properties, ColorKey)
                    /\ obj.properties[ColorKey] # <<>>
                 THEN obj.properties[ColorKey] ELSE Cyan
    IN [id |-> obj.id,
        position |-> Enu(lat, lon, alt, origin),
        orientation |-> q,
        velocity |-> IF Moving(timeDelta)
                     THEN [k |-> "velocity", p1 |-> p1, p2 |-> p2, timeDelta |-> timeDelta]
                     ELSE ZeroVector,
        color |-> color,
        isActive |-> TRUE,
        speed |-> IF Moving(timeDelta)
                  THEN [k |-> "speed", p1 |-> p1, p2 |-> p2, timeDelta |-> timeDelta]
                  ELSE Num(0),
        verticalSpeed |-> IF Moving(timeDelta)
                          THEN JsDiv(JsSub(s2.altitude, s1.altitude), timeDelta)
                          ELSE Num(0),
        heading |-> [k |-> "heading", q |-> q]]

GetInterpolatedState(obj, t, origin) ==
    IF IsActive(obj, t) THEN ActiveState(obj, t, origin) ELSE DefaultState(obj)

\* A mutation of InterpolatedStates: only the active objects get a pose.
InterpolatedStatesOfActive(data, t, origin) ==
    IF data = Null THEN EmptyMap
    ELSE [id \in {x \in DOMAIN data.objects : IsActive(data.objects[x], t)} |->
             GetInterpolatedState(data.objects[id], t, origin)]

\* The computation of the interpolatedStates signal.
InterpolatedStates(data, t, origin) ==
    IF data = Null THEN EmptyMap
    ELSE [id \in DOMAIN data.objects |->
             GetInterpolatedState(data.objects[id], t, origin)]

\* ------------------------------------------------------------------------
\* The simulation engine (SimulationService) as a state machine.  Its
\* datasets are results of parse: DatasetOf of the texts below.

\* 'A,T=3|4|5'
LnUpdateA2 == <<"A", ",", "T", "=", "3", "|", "4", "|", "5">>
\* 'A,T=5|6|7'
LnUpdateA3 == <<"A", ",", "T", "=", "5", "|", "6", "|", "7">>
\* 'B,Name=N'
LnUpdateBName == <<"B", ",", "N", "a", "m", "e", "=", "N">>
\* '#3'
LnFrame3 == <<"#", "3">>

\* A at the times 1 and 2, with a reference longitude.
TextTwoFrames ==
    <<FileTypeMarker, LnRefLon, LnFrame1, LnUpdateA, LnFrame2, LnUpdateA2>>
\* A at the times 1 and 2, coloured, removed at 3; B never has a state.
TextRemoved ==
    <<FileTypeMarker, LnFrame1, LnUpdateA, LnUpdateBName, LnUpdateANoLat,
      LnFrame2, LnUpdateA2, LnFrame3, LnRemoveA>>
\* The first frame is at -1, the last at 1.
TextNegativeStart ==
    <<FileTypeMarker, LnFrameNeg, LnUpdateA, LnFrame1, LnUpdateA2>>
\* Frames at 1, 3, 2: the series of A is in file order.
TextUnsorted ==
    <<FileTypeMarker, LnFrame1, LnUpdateA, LnFrame3, LnUpdateA2,
      LnFrame2, LnUpdateA3>>
\* Two samples of A at the time 1, a third at 2.
TextRepeated ==
    <<FileTypeMarker, LnFrame1, LnUpdateA, LnUpdateA2, LnFrame2, LnUpdateA3>>
\* The second of three frame markers has no number.
TextBadFrame ==
    <<FileTypeMarker, LnFrame1, LnUpdateA, LnFrameBad, LnUpdateA2,
      LnFrame2, LnUpdateA3>>
\* The empty text.
TextEmpty == <<>>

\* The sample input of the external interface.
\* '0,ReferenceTime=2020-01-01T00:00:00'
LnSampleRefTime ==
    <<"0", ",", "R", "e", "f", "e", "r", "e", "n", "c", "e", "T", "i", "m",
      "e", "=", "2", "0", "2", "0", "-", "0", "1", "-", "0", "1", "T", "0",
      "0", ":", "0", "0", ":", "0", "0">>
\* '0,ReferenceLongitude=30.0'
LnSampleRefLon ==
    <<"0", ",", "R", "e", "f", "e", "r", "e", "n", "c", "e", "L", "o", "n",
      "g", "i", "t", "u", "d", "e", "=", "3", "0", ".", "0">>
\* '0,ReferenceLatitude=50.0'
LnSampleRefLat ==
    <<"0", ",", "R", "e", "f", "e", "r", "e", "n", "c", "e", "L", "a", "t",
      "i", "t", "u", "d", "e", "=", "5", "0", ".", "0">>
\* '#1.00'
LnSampleFrame1 ==
    <<"#", "1", ".", "0", "0">>
\* 'A100,T=30.01|50.01|1000|0|0|90,Name=Test,Color=Red'
LnSampleUpdate1 ==
    <<"A", "1", "0", "0", ",", "T", "=", "3", "0", ".", "0", "1", "|", "5",
      "0", ".", "0", "1", "|", "1", "0", "0", "0", "|", "0", "|", "0", "|",
      "9", "0", ",", "N", "a", "m", "e", "=", "T", "e", "s", "t", ",", "C",
      "o", "l", "o", "r", "=", "R", "e", "d">>
\* '#2.00'
LnSampleFrame2 ==
    <<"#", "2", ".", "0", "0">>
\* 'A100,T=30.02|50.02|1000'
LnSampleUpdate2 ==
    <<"A", "1", "0", "0", ",", "T", "=", "3", "0", ".", "0", "2", "|", "5",
      "0", ".", "0", "2", "|", "1", "0", "0", "0">>
\* '-A100'
LnSampleRemove ==
    <<"-", "A", "1", "0", "0">>
IdA100 == <<"A", "1", "0", "0">>
IdZero == <<"0">>
TextSample ==
    <<FileTypeMarker, LnFileVersion, LnSampleRefTime, LnSampleRefLon,
      LnSampleRefLat, LnSampleFrame1, LnSampleUpdate1, LnSampleFrame2,
      LnSampleUpdate2, LnSampleRemove>>

SimTexts ==
    { TextTwoFrames, TextRemoved, TextNegativeStart, TextUnsorted,
      TextRepeated, TextBadFrame, TextEmpty, TextSample }

SimDatasets == { DatasetOf(t) : t \in SimTexts } \ {NoDataset}

\* The frame deltas of the animation loop, in seconds.
TickDeltas == { Num(0), Num(Scale \div 2), Num(Scale) }

\* Speeds: those of the playback controls, and a negative one (setSpeed
\* takes any number).
Speeds == { Num(Scale \div 4), Num(Scale), Num(2 * Scale), Num(0 - Scale) }

\* Seek targets, in seconds: -1, 0, 0.5, 1, 1.5, 2, 3, 4.
SeekTargets ==
    { Num(0 - Scale), Num(0), Num(Scale \div 2), Num(Scale),
      Num(3 * (Scale \div 2)), Num(2 * Scale), Num(3 * Scale), Num(4 * Scale) }

\* Playing backwards is followed down to this many seconds below zero.
MaxRewind == 2

Call(name, arg) == [name |-> name, arg |-> arg]

\* ecefToEnu(wgs84ToEcef(lat, lon, 0), lat, lon)
EnuOrigin(data) ==
    [lat |-> data.referenceLatitude, lon |-> data.referenceLongitude]

\* The cached value of the computed signal is dropped when a signal it read
\* is set to another value.
Invalidate ==
    interpolated' =
        IF acmiData' # acmiData \/ time' # time THEN Dirty ELSE interpolated

\* Math.max(0, Math.min(newTime, this.duration()))
Clamp(newTime, d) == JsMax(Num(0), JsMin(newTime, d))

\* The time after seek(newTime).
SeekTime(loaded, t, newTime, d) ==
    IF ~loaded THEN t ELSE Clamp(newTime, d)

\* A mutation of LoadData: the time starts at 0.
LoadDataAtZero(data) ==
    /\ acmiData' = data
    /\ time' = Num(0)
    /\ duration' = data.endTime
    /\ isDataLoaded' = TRUE
    /\ enuOrigin' = EnuOrigin(data)
    /\ op' = Call("loadData", data)
    /\ UNCHANGED <<isPlaying, playbackSpeed, pvars, avars>>
    /\ Invalidate

\* The body of loadData, on the service.
LoadDataCall(data) ==
    /\ acmiData' = data
    /\ time' = data.startTime
    /\ duration' = data.endTime
    /\ isDataLoaded' = TRUE
    /\ enuOrigin' = EnuOrigin(data)
    /\ op' = Call("loadData", data)
    /\ UNCHANGED <<isPlaying, playbackSpeed>>
    /\ Invalidate

LoadData(data) == LoadDataCall(data) /\ UNCHANGED <<pvars, avars>>

\* A mutation of TickTime: the new time is not bounded by the duration.
TickTimeUnbounded(t, deltaTime, speed, d) == JsAdd(t, JsMul(deltaTime, speed))

\* Math.min(t + deltaTime * this.playbackSpeed(), this.duration())
TickTime(t, deltaTime, speed, d) ==
    JsMin(JsAdd(t, JsMul(deltaTime, speed)), d)

Tick(deltaTime) ==
    /\ (isPlaying /\ isDataLoaded /\ JsLt(playbackSpeed, Num(0)) /\ IsNum(time)) =>
           time.v > 0 - MaxRewind * Scale
    /\ op' = Call("tick", deltaTime)
    /\ IF ~isPlaying \/ ~isDataLoaded
       THEN UNCHANGED <<time, isPlaying>>
       ELSE /\ time' = TickTime(time, deltaTime, playbackSpeed, duration)
            /\ isPlaying' = IF JsGe(time', duration) THEN FALSE ELSE isPlaying
    /\ UNCHANGED <<playbackSpeed, duration, isDataLoaded, acmiData, enuOrigin, pvars, avars>>
    /\ Invalidate

\* this.acmiData()?.startTime ?? 0
StartTimeOrZero == IF acmiData = Null THEN Num(0) ELSE acmiData.startTime

\* The time after play().
PlayTime(loaded, t, start, d) ==
    IF loaded /\ JsGe(t, d) THEN SeekTime(loaded, t, start, d) ELSE t

\* A mutation of PlayStarts: play without the isDataLoaded guard.
PlayStartsUnguarded(loaded, playing) == TRUE

\* isPlaying after play().
PlayStarts(loaded, playing) == IF loaded THEN TRUE ELSE playing

Play ==
    /\ op' = Call("play", Null)
    /\ time' = PlayTime(isDataLoaded, time, StartTimeOrZero, duration)
    /\ isPlaying' = PlayStarts(isDataLoaded, isPlaying)
    /\ UNCHANGED <<playbackSpeed, duration, isDataLoaded, acmiData, enuOrigin, pvars, avars>>
    /\ Invalidate

Pause ==
    /\ op' = Call("pause", Null)
    /\ isPlaying' = FALSE
    /\ UNCHANGED <<time, playbackSpeed, duration, isDataLoaded, acmiData,
                   enuOrigin, interpolated, pvars, avars>>

Seek(newTime) ==
    /\ op' = Call("seek", newTime)
    /\ time' = SeekTime(isDataLoaded, time, newTime, duration)
    /\ UNCHANGED <<isPlaying, playbackSpeed, duration, isDataLoaded, acmiData,
                   enuOrigin, pvars, avars>>
    /\ Invalidate

SetSpeed(speed) ==
    /\ op' = Call("setSpeed", speed)
    /\ playbackSpeed' = speed
    /\ UNCHANGED <<time, isPlaying, duration, isDataLoaded, acmiData,
                   enuOrigin, interpolated, pvars, avars>>

\* A mutation of Reset: reset without the pause.
ResetKeepsPlaying ==
    /\ op' = Call("reset", Null)
    /\ acmiData' = Null
    /\ isDataLoaded' = FALSE
    /\ time' = Num(0)
    /\ duration' = Num(0)
    /\ UNCHANGED <<isPlaying, playbackSpeed, enuOrigin, pvars, avars>>
    /\ Invalidate

\* The body of reset, on the service.
ResetCall ==
    /\ op' = Call("reset", Null)
    /\ isPlaying' = FALSE
    /\ acmiData' = Null
    /\ isDataLoaded' = FALSE
    /\ time' = Num(0)
    /\ duration' = Num(0)
    /\ UNCHANGED <<playbackSpeed, enuOrigin>>
    /\ Invalidate

Reset == ResetCall /\ UNCHANGED <<pvars, avars>>

\* A read of the interpolatedStates signal: computed when there is no
\* cached value.
ReadInterpolatedStates ==
    /\ op' = Call("interpolatedStates", Null)
    /\ interpolated' =
           [fresh |-> TRUE,
            states |-> IF interpolated.fresh THEN interpolated.states
                       ELSE InterpolatedStates(acmiData, time, enuOrigin)]
    /\ UNCHANGED <<engine, pvars, avars>>

SimNext ==
    \/ \E data \in SimDatasets : LoadData(data)
    \/ \E deltaTime \in TickDeltas : Tick(deltaTime)
    \/ Play
    \/ Pause
    \/ \E newTime \in SeekTargets : Seek(newTime)
    \/ \E speed \in Speeds : SetSpeed(speed)
    \/ Reset
    \/ ReadInterpolatedStates

SimSpec == Init /\ [][SimNext]_vars

\* ------------------------------------------------------------------------
\* C12: loadData(dataset) sets time to the dataset's startTime, duration to
\* its endTime, isDataLoaded to true and holds the dataset, whatever the
\* engine's state was; isPlaying and playbackSpeed keep their values.
C12_Step ==
    op'.name = "loadData" =>
        /\ acmiData' = op'.arg
        /\ time' = op'.arg.startTime
        /\ duration' = op'.arg.endTime
        /\ isDataLoaded' = TRUE
        /\ isPlaying' = isPlaying
        /\ playbackSpeed' = playbackSpeed

C12_LoadDataSetsClock == [][C12_Step]_vars

\* A dataset loaded over another one while playing at a speed other than 1.
C12_Witness ==
    /\ op.name = "loadData"
    /\ isPlaying
    /\ playbackSpeed # Num(Scale)
    /\ time = acmiData.startTime
    /\ time # Num(0)

\* ------------------------------------------------------------------------
\* C13: when playing and loaded, tick(delta) sets time to
\* Math.min(time + delta * playbackSpeed, duration), with no lower bound,
\* and isPlaying becomes false exactly when the new time >= duration; when
\* not playing, tick changes nothing of the engine.
C13_Step ==
    op'.name = "tick" =>
        /\ (isPlaying /\ isDataLoaded) =>
              /\ time' = JsMin(JsAdd(time, JsMul(op'.arg, playbackSpeed)), duration)
              /\ isPlaying' = ~JsGe(time', duration)
        /\ ~isPlaying => UNCHANGED engine

C13_TickAdvancesToDuration == [][C13_Step]_vars

\* A tick at a negative speed that has taken the time below 0 and below the
\* dataset's startTime, still playing.
C13_Witness ==
    /\ op.name = "tick"
    /\ op.arg # Num(0)
    /\ isPlaying
    /\ isDataLoaded
    /\ IsNum(time) /\ time.v < 0
    /\ IsNum(acmiData.startTime) /\ time.v < acmiData.startTime.v

\* ------------------------------------------------------------------------
\* C14: when a dataset is loaded, seek(t) leaves time in [0, duration], at t
\* itself when t is in that range, for every t; isPlaying, playbackSpeed,
\* duration and the dataset keep their values.
C14_Step ==
    (op'.name = "seek" /\ isDataLoaded) =>
        /\ IsNum(time') /\ IsNum(duration)
        /\ 0 <= time'.v /\ time'.v <= duration.v
        /\ (0 <= op'.arg.v /\ op'.arg.v <= duration.v) => time' = op'.arg
        /\ op'.arg.v < 0 => time' = Num(0)
        /\ op'.arg.v > duration.v => time' = duration
        /\ UNCHANGED <<isPlaying, playbackSpeed, duration, acmiData>>

C14_SeekClampsIntoRange == [][C14_Step]_vars

\* ------------------------------------------------------------------------
\* C15: when a dataset is loaded, play() called with time >= duration leaves
\* time at the dataset's startTime and isPlaying true; called with
\* time < duration it sets isPlaying and leaves time unchanged.
C15_Step ==
    (op'.name = "play" /\ isDataLoaded) =>
        /\ JsGe(time, duration) => (time' = acmiData.startTime /\ isPlaying')
        /\ JsLt(time, duration) => (time' = time /\ isPlaying')

C15_PlayRestartsAtStartTime == [][C15_Step]_vars

\* ------------------------------------------------------------------------
\* C16: while no dataset is loaded (before the first loadData and after a
\* reset), tick, seek and play leave time, isPlaying, playbackSpeed,
\* duration, the dataset and isDataLoaded unchanged.
C16_Step ==
    (op'.name \in {"tick", "seek", "play"} /\ ~isDataLoaded) =>
        UNCHANGED <<time, isPlaying, playbackSpeed, duration, acmiData,
                    isDataLoaded>>

C16_NoOpWithoutDataset == [][C16_Step]_vars

\* play() called after a dataset was loaded and the engine reset.
C16_Witness ==
    /\ op.name = "play"
    /\ ~isDataLoaded
    /\ enuOrigin # Null
    /\ ~isPlaying

\* ------------------------------------------------------------------------
\* The poses last read from interpolatedStates, and the objects they are of.
Poses == interpolated.states
PosesRead == interpolated.fresh /\ acmiData # Null
ObjectOf(id) == acmiData.objects[id]
SeriesOf(id) == ObjectOf(id).states

\* ------------------------------------------------------------------------
\* C17: in the poses computed at the time t, an object with a non-empty
\* series removed at R is active exactly when states[0].time <= t < R (one
\* never removed, exactly when states[0].time <= t); an object with an
\* empty series is inactive; an inactive pose is the fixed one: position
\* (0,0,0), identity quaternion, zero velocity and speed, color 'gray'.
C17_ActiveWindow ==
    PosesRead =>
        \A id \in DOMAIN Poses :
            /\ SeriesOf(id) = <<>> => ~Poses[id].isActive
            /\ (SeriesOf(id) # <<>> /\ ObjectOf(id).removedAtTime # Null) =>
                   (Poses[id].isActive <=>
                        (/\ JsGe(time, SeriesOf(id)[1].time)
                         /\ JsLt(time, ObjectOf(id).removedAtTime)))
            /\ (SeriesOf(id) # <<>> /\ ObjectOf(id).removedAtTime = Null) =>
                   (Poses[id].isActive <=> JsGe(time, SeriesOf(id)[1].time))
            /\ ~Poses[id].isActive =>
                   /\ Poses[id].position = [k |-> "vector", x |-> 0, y |-> 0, z |-> 0]
                   /\ Poses[id].orientation =
                          [k |-> "quaternion", w |-> 1, x |-> 0, y |-> 0, z |-> 0]
                   /\ Poses[id].velocity = [k |-> "vector", x |-> 0, y |-> 0, z |-> 0]
                   /\ Poses[id].speed = Num(0)
                   /\ Poses[id].color = <<"g", "r", "a", "y">>

\* Poses read at the very time an object with samples was removed, in a
\* dataset that also has an object without samples.
C17_Witness ==
    /\ PosesRead
    /\ \E id \in DOMAIN Poses :
          /\ SeriesOf(id) # <<>>
          /\ ObjectOf(id).removedAtTime = time
          /\ ~Poses[id].isActive
    /\ \E id \in DOMAIN Poses : SeriesOf(id) = <<>>

\* ------------------------------------------------------------------------
\* The pose is the one of the sample s: its position and its orientation.
HoldsSample(pose, s) ==
    /\ pose.position =
           Enu(s.latitude, s.longitude, s.altitude, EnuOrigin(acmiData))
    /\ pose.orientation = EulerToQuaternion(s)

\* Zero velocity, speed and vertical speed.
AtRest(pose) ==
    /\ pose.velocity = ZeroVector
    /\ pose.speed = Num(0)
    /\ pose.verticalSpeed = Num(0)

SamplesAt(id, t) == { n \in 1..Len(SeriesOf(id)) : SeriesOf(id)[n].time = t }

\* ------------------------------------------------------------------------
\* C18: for an active object and a query time equal to the time of one of
\* its samples, the interpolation fraction is 0 or 1 and the interpolated
\* longitude, latitude and altitude are those of a sample with that time.
C18_SampleTimeYieldsSample ==
    PosesRead =>
        \A id \in DOMAIN Poses :
            (Poses[id].isActive /\ SamplesAt(id, time) # {}) =>
                /\ Fraction(SeriesOf(id), time) \in {Num(0), Num(Scale)}
                /\ \E n \in SamplesAt(id, time) :
                      /\ Poses[id].position.lon = SeriesOf(id)[n].longitude
                      /\ Poses[id].position.lat = SeriesOf(id)[n].latitude
                      /\ Poses[id].position.alt = SeriesOf(id)[n].altitude

\* ------------------------------------------------------------------------
\* C19: for an object with a non-empty series, the pose at a time before
\* its first sample is the first sample's, the pose at a time at or after
\* its last sample is the last sample's, and in both cases timeDelta is 0
\* and the pose is at rest.
C19_EndpointsHeld ==
    PosesRead =>
        \A id \in DOMAIN Poses :
            SeriesOf(id) # <<>> =>
                /\ JsLt(time, SeriesOf(id)[1].time) =>
                       /\ HoldsSample(Poses[id], SeriesOf(id)[1])
                       /\ AtRest(Poses[id])
                /\ JsGe(time, Last(SeriesOf(id)).time) =>
                       /\ HoldsSample(Poses[id], Last(SeriesOf(id)))
                       /\ AtRest(Poses[id])

\* C19, amended: before its first sample an object is inactive and its pose
\* the fixed one, at rest; while it is active and its series never
\* decreases, the pose at a time at or after the last sample is the last
\* sample's, with timeDelta 0 and at rest.
C19_LastSampleHeldWhileActive ==
    PosesRead =>
        \A id \in DOMAIN Poses :
            SeriesOf(id) # <<>> =>
                /\ JsLt(time, SeriesOf(id)[1].time) =>
                       /\ ~Poses[id].isActive
                       /\ Poses[id].position = ZeroVector
                       /\ Poses[id].orientation = IdentityQuaternion
                       /\ AtRest(Poses[id])
                /\ (/\ Poses[id].isActive
                    /\ NeverDecreases(SeriesTimes(ObjectOf(id)))
                    /\ JsGe(time, Last(SeriesOf(id)).time)) =>
                       /\ HoldsSample(Poses[id], Last(SeriesOf(id)))
                       /\ TimeDelta(SeriesOf(id), time) = Num(0)
                       /\ AtRest(Poses[id])

\* Poses read at the time of the last of several samples of an active
\* object, whose first sample differs from the last.
C19_Witness ==
    /\ PosesRead
    /\ \E id \in DOMAIN Poses :
          /\ Poses[id].isActive
          /\ Len(SeriesOf(id)) > 1
          /\ NeverDecreases(SeriesTimes(ObjectOf(id)))
          /\ JsGe(time, Last(SeriesOf(id)).time)
          /\ SeriesOf(id)[1].longitude # Last(SeriesOf(id)).longitude

\* ------------------------------------------------------------------------
\* C20: a read of interpolatedStates returns one pose for every object id
\* of the dataset, active or not; what it returns, computed now or kept
\* from an earlier read, is what the dataset and the time alone determine,
\* so two reads at the same time of the same dataset return the same map;
\* the read changes neither the dataset nor time, isPlaying, playbackSpeed
\* or duration.
C20_Step ==
    op'.name = "interpolatedStates" =>
        /\ UNCHANGED <<acmiData, time, isPlaying, playbackSpeed, duration>>
        /\ acmiData = Null => Poses' = EmptyMap
        /\ acmiData # Null =>
              /\ DOMAIN Poses' = DOMAIN acmiData.objects
              /\ \A id \in DOMAIN Poses' : Poses'[id].id = id
              /\ Poses' = [id \in DOMAIN acmiData.objects |->
                              GetInterpolatedState(acmiData.objects[id], time,
                                                   EnuOrigin(acmiData))]

SampleDataset == DatasetOf(TextSample)
SampleLoaded == acmiData # Null /\ acmiData = SampleDataset

\* C21: with the sample input parsed and loaded, the pose of A100 at the
\* time 1.5 is active, brackets the samples at 1 and 2 with fraction 0.5,
\* has longitude 30.015, latitude 50.015 and altitude 1000, and its
\* kinematics are computed over timeDelta = 1.
C21_SampleAtOneAndAHalf ==
    (PosesRead /\ SampleLoaded /\ time = Num(3 * (Scale \div 2))) =>
        /\ IdA100 \in DOMAIN Poses
        /\ Poses[IdA100].isActive
        /\ S1(SeriesOf(IdA100), time).time = Num(Scale)
        /\ S2(SeriesOf(IdA100), time).time = Num(2 * Scale)
        /\ Fraction(SeriesOf(IdA100), time) = Num(Scale \div 2)
        /\ Poses[IdA100].position.lon = Num(30 * Scale + 15)
        /\ Poses[IdA100].position.lat = Num(50 * Scale + 15)
        /\ Poses[IdA100].position.alt = Num(Scale * Scale)
        /\ Poses[IdA100].velocity # ZeroVector
        /\ Poses[IdA100].velocity.timeDelta = Num(Scale)
        /\ Poses[IdA100].speed.timeDelta = Num(Scale)
        /\ Poses[IdA100].verticalSpeed = Num(0)

\* The poses of the sample read at the time 1.5.
C21_Witness ==
    /\ PosesRead
    /\ SampleLoaded
    /\ time = Num(3 * (Scale \div 2))
    /\ op.name = "interpolatedStates"

\* ------------------------------------------------------------------------
\* C23: the dataset parsed from the sample input, whose header gives
\* '0,ReferenceLongitude=30.0' and '0,ReferenceLatitude=50.0', has
\* referenceLongitude 30 and referenceLatitude 50, and no object with the
\* id '0' nor any other object made from the header lines.
C23_SampleReferenceValues ==
    SampleLoaded =>
        /\ acmiData.referenceLongitude = Num(30 * Scale)
        /\ acmiData.referenceLatitude = Num(50 * Scale)
        /\ IdZero \notin DOMAIN acmiData.objects
        /\ DOMAIN acmiData.objects = {IdA100}

\* ------------------------------------------------------------------------
\* parse over update lines with double quotes.

\* 'A,Name="Smith, John"'
LnQuotedName ==
    <<"A", ",", "N", "a", "m", "e", "=", "\"", "S", "m", "i", "t", "h",
      ",", " ", "J", "o", "h", "n", "\"">>
\* 'A,N="a,b",P=c'
LnQuotedTwo ==
    <<"A", ",", "N", "=", "\"", "a", ",", "b", "\"", ",", "P", "=", "c">>
\* 'A,N="a,b'
LnQuoteOpen ==
    <<"A", ",", "N", "=", "\"", "a", ",", "b">>
\* 'A,N=""x""'
LnQuotedTwice ==
    <<"A", ",", "N", "=", "\"", "\"", "x", "\"", "\"">>
\* 'B,N="'
LnQuoteAlone ==
    <<"B", ",", "N", "=", "\"">>

QuoteAlphabet ==
    { FileTypeMarker, LnEmpty, LnFrame1, LnRemoveA,
      LnQuotedName, LnQuotedTwo, LnQuoteOpen, LnQuotedTwice, LnQuoteAlone }

QuoteNext ==
    \/ \E line \in QuoteAlphabet : SkipLine(line)
    \/ \E line \in QuoteAlphabet : AcceptFileType(line)
    \/ \E line \in QuoteAlphabet : RejectFileType(line)
    \/ \E line \in QuoteAlphabet : FrameLine(line)
    \/ \E line \in QuoteAlphabet : HeaderLine(line)
    \/ \E line \in QuoteAlphabet : RemovalLine(line)
    \/ \E line \in QuoteAlphabet : UpdateLine(line)
    \/ Return

QuoteSpec == Init /\ [][QuoteNext]_vars

\* The commas of the line with an even number of double quotes before them,
\* and the fields they delimit.
Quote == "\""
QuotesBefore(line, i) == Cardinality({ j \in 1..(i - 1) : line[j] = Quote })
OutsideCommas(line) ==
    { i \in 1..Len(line) : line[i] = "," /\ QuotesBefore(line, i) % 2 = 0 }
FieldEnd(line, i) ==
    IF \E j \in OutsideCommas(line) : j > i
    THEN (CHOOSE j \in OutsideCommas(line) :
              j > i /\ \A m \in OutsideCommas(line) : m > i => j <= m) - 1
    ELSE Len(line)
FieldAfter(line, i) == SubSeq(line, i + 1, FieldEnd(line, i))
Equals(f) == { j \in 1..Len(f) : f[j] = "=" }
FirstEquals(f) == CHOOSE j \in Equals(f) : \A m \in Equals(f) : j <= m
KeyIn(f) == SubSeq(f, 1, FirstEquals(f) - 1)
RawValueIn(f) == SubSeq(f, FirstEquals(f) + 1, Len(f))
Wrapped(v) == Len(v) >= 2 /\ v[1] = Quote /\ v[Len(v)] = Quote

\* C22: in an object update line the number of tokens is 1 plus the number
\* of commas outside double quotes, and the value of a key=value field that
\* begins and ends with a double quote is stored without that pair (the
\* last field of a key is the one stored).
C22_Step ==
    TakesUpdate =>
        LET line == TakenLine
            id == SubSeq(line, 1, FieldEnd(line, 0))
        IN /\ Len(TokenizeLine(line)) = 1 + Cardinality(OutsideCommas(line))
           /\ id \in DOMAIN objects'
           /\ \A i \in OutsideCommas(line) :
                 LET f == FieldAfter(line, i)
                 IN (/\ Equals(f) # {}
                     /\ KeyIn(f) # <<>>
                     /\ KeyIn(f) # <<"T">>
                     /\ Wrapped(RawValueIn(f))
                     /\ \A j \in OutsideCommas(line) :
                           (j > i /\ Equals(FieldAfter(line, j)) # {}) =>
                               KeyIn(FieldAfter(line, j)) # KeyIn(f)) =>
                        /\ KeyIn(f) \in DOMAIN objects'[id].properties
                        /\ objects'[id].properties[KeyIn(f)] =
                               SubSeq(RawValueIn(f), 2, Len(RawValueIn(f)) - 1)

C22_QuotedCommaDoesNotSplit == [][C22_Step]_vars

\* Name="Smith, John" has been taken: the single property Name = Smith, John.
C22_Witness ==
    /\ pc = "running"
    /\ text # <<>>
    /\ Last(text) = LnQuotedName
    /\ IdA \in DOMAIN objects
    /\ DOMAIN objects[IdA].properties = {<<"N", "a", "m", "e">>}
    /\ objects[IdA].properties[<<"N", "a", "m", "e">>] =
           <<"S", "m", "i", "t", "h", ",", " ", "J", "o", "h", "n">>

\* ------------------------------------------------------------------------
\* C24: in every state of the engine, time <= duration.
C24_TimeWithinDuration ==
    IsNum(time) /\ IsNum(duration) /\ time.v <= duration.v

\* ------------------------------------------------------------------------
\* C25: in every state of the engine, isPlaying implies isDataLoaded and a
\* dataset that is not null.
C25_PlayingImpliesLoaded ==
    isPlaying => (isDataLoaded /\ acmiData # Null)

\* Still playing after a dataset was loaded over the one being played.
C25_Witness ==
    /\ isPlaying
    /\ isDataLoaded
    /\ acmiData # Null
    /\ op.name = "loadData"

\* ------------------------------------------------------------------------
\* The engine under the render loop: requestAnimationFrame keeps calling
\* tick with the time elapsed since the last frame.
PositiveTick == \E deltaTime \in TickDeltas \ {Num(0)} : Tick(deltaTime)

LiveSpec == Init /\ [][SimNext]_vars /\ WF_vars(PositiveTick)

Interrupts == {"seek", "pause", "setSpeed", "loadData", "reset"}

\* C26: once a loaded dataset is playing at a speed > 0, ticks with a
\* positive delta lead to time = duration and isPlaying = false, unless
\* seek, pause, setSpeed, loadData or reset is called before.
C26_PlaybackReachesTheEnd ==
    (/\ isPlaying
     /\ isDataLoaded
     /\ JsGt(playbackSpeed, Num(0))
     /\ op.name \in {"play", "tick"})
        ~> \/ (time = duration /\ ~isPlaying)
           \/ op.name \in Interrupts

\* ------------------------------------------------------------------------
\* C27: for every active object at the query time t, s1.time <= t, and
\* either s1 and s2 are both the last sample, with fraction 1, or
\* s1.time <= t < s2.time; the fraction lies in [0, 1].
C27_BracketHoldsTheTime ==
    PosesRead =>
        \A id \in DOMAIN Poses :
            Poses[id].isActive =>
                LET states == SeriesOf(id)
                    f == Fraction(states, time)
                IN /\ JsGe(time, S1(states, time).time)
                   /\ \/ /\ S1Index(states, time) = Len(states) - 1
                         /\ S2Index(states, time) = Len(states) - 1
                         /\ f = Num(Scale)
                      \/ /\ JsGe(time, S1(states, time).time)
                         /\ JsLt(time, S2(states, time).time)
                   /\ IsNum(f) /\ 0 <= f.v /\ f.v <= Scale

\* ------------------------------------------------------------------------
\* C28: until a frame marker has been taken the object map is empty (update
\* and removal lines of that phase are consumed as header lines), and every
\* TimeState that a line appends has the time of the last frame marker
\* taken before that line; the dataset returned holds these objects.
C28_Step ==
    /\ ~SeenFrame' => objects' = EmptyMap
    /\ TakesLine =>
          \A id \in DOMAIN objects' :
              \A n \in 1..Len(objects'[id].states) :
                  (id \notin DOMAIN objects \/ n > Len(objects[id].states)) =>
                      /\ SeenFrame
                      /\ objects'[id].states[n].time = Last(FrameTimesOf(text))
    /\ pc' = "returned" => dataset'.objects = objects

C28_NoObjectBeforeFirstFrame == [][C28_Step]_vars

\* An update line taken before the first frame marker and again after it:
\* the object has the one state of the second.
C28_Witness ==
    /\ pc = "running"
    /\ Len(text) = 4
    /\ text[1] = FileTypeMarker
    /\ text[2] = LnUpdateA
    /\ text[3] = LnFrame2
    /\ text[4] = LnUpdateA
    /\ DOMAIN objects = {IdA}
    /\ Len(objects[IdA].states) = 1
    /\ objects[IdA].states[1].time = Num(2 * Scale)

\* ------------------------------------------------------------------------
\* C29: every dataset returned by parse has endTime >= 0 and
\* startTime <= endTime, and every TimeState time and every removedAtTime
\* that is not null is <= endTime.
C29_TimesWithinEndTime ==
    pc = "returned" =>
        /\ IsNum(dataset.endTime) /\ dataset.endTime.v >= 0
        /\ IsNum(dataset.startTime) /\ dataset.startTime.v <= dataset.endTime.v
        /\ \A id \in DOMAIN dataset.objects :
              /\ \A n \in 1..Len(dataset.objects[id].states) :
                    /\ IsNum(dataset.objects[id].states[n].time)
                    /\ dataset.objects[id].states[n].time.v <= dataset.endTime.v
              /\ dataset.objects[id].removedAtTime # Null =>
                    /\ IsNum(dataset.objects[id].removedAtTime)
                    /\ dataset.objects[id].removedAtTime.v <= dataset.endTime.v

\* ------------------------------------------------------------------------
\* AppComponent.onFileChange: an async handler.  Each call runs up to its
\* first await at once and resumes, after each await, in an order the
\* file reads and the unzip decide.

\* The files selected: plain text, a ZIP archive with an .acmi entry, or a
\* ZIP archive without one; the text is what is decoded from either.
FileNames == {"a.acmi", "b.acmi"}
FileKinds == {"text", "zip", "emptyzip"}
\* '#1' first: parse throws.
TextNoHeader == <<LnFrame1>>
FileTexts == {TextTwoFrames, TextRemoved, TextNoHeader}

\* Each text with what parse returns for it: a dataset, or NoDataset when
\* it throws.
ParsedTexts == { [text |-> t, parsed |-> DatasetOf(t)] : t \in FileTexts }

\* A file: its name, its kind, the text in it and what parse makes of it.
Files ==
    { [name |-> n, kind |-> k, text |-> p.text, parsed |-> p.parsed] :
          n \in FileNames, k \in FileKinds, p \in ParsedTexts }

InFlight(l) == loads[l].pc \notin {"idle", "done"}
Started == { l \in Loads : loads[l].pc # "idle" }

\* The handler up to 'await file.arrayBuffer()'.
OnFileChange(l, file) ==
    /\ loads[l].pc = "idle"
    /\ \A m \in Loads : m < l => loads[m].pc # "idle"
    /\ fileName' = FileNameOf(file.name)
    /\ isLoading' = TRUE
    /\ errorMessage' = FALSE
    /\ ResetCall
    /\ loads' = [loads EXCEPT ![l] =
                    [pc |-> "reading", file |-> file,
                     order |-> Cardinality(Started) + 1,
                     overlap |-> \E m \in Loads : InFlight(m)]]
    /\ UNCHANGED pvars

\* catch and finally.
Failed(l) ==
    /\ errorMessage' = TRUE
    /\ fileName' = NoFileName
    /\ isLoading' = FALSE
    /\ loads' = [loads EXCEPT ![l].pc = "done"]
    /\ UNCHANGED <<svars, pvars>>

\* arrayBuffer() has resolved: a ZIP archive goes to JSZip.loadAsync, any
\* other buffer is decoded and goes to parse.
BufferRead(l) ==
    /\ loads[l].pc = "reading"
    /\ loads' = [loads EXCEPT ![l].pc =
                    IF loads[l].file.kind = "text" THEN "parsing" ELSE "unzipping"]
    /\ UNCHANGED <<fileName, isLoading, errorMessage, svars, pvars>>

\* The archive is open: its .acmi entry goes to parse; without one, throw.
Unzipped(l) ==
    /\ loads[l].pc = "unzipping"
    /\ IF loads[l].file.kind = "emptyzip"
       THEN Failed(l)
       ELSE /\ loads' = [loads EXCEPT ![l].pc = "parsing"]
            /\ UNCHANGED <<fileName, isLoading, errorMessage, svars, pvars>>

\* parse has settled: loadData on its dataset, or catch; then finally.
Parsed(l) ==
    /\ loads[l].pc = "parsing"
    /\ IF loads[l].file.parsed = NoDataset
       THEN Failed(l)
       ELSE /\ LoadDataCall(loads[l].file.parsed)
            /\ isLoading' = FALSE
            /\ loads' = [loads EXCEPT ![l].pc = "done"]
            /\ UNCHANGED <<fileName, errorMessage, pvars>>

AppNext ==
    \/ \E l \in Loads : \E file \in Files : OnFileChange(l, file)
    \/ \E l \in Loads : BufferRead(l)
    \/ \E l \in Loads : Unzipped(l)
    \/ \E l \in Loads : Parsed(l)

AppSpec == Init /\ [][AppNext]_vars

\* The call of onFileChange made last, and what its file parses to.
LatestLoad == CHOOSE l \in Started : \A m \in Started : loads[m].order <= loads[l].order
OutcomeOf(file) ==
    IF file.kind = "emptyzip" THEN Null ELSE file.parsed

\* C30: when calls of onFileChange have overlapped and all have completed,
\* the dataset held is the one parsed from the file selected last, whose
\* name is the one fileName shows.
C30_LatestFileWins ==
    (/\ Cardinality(Started) > 1
     /\ \E l \in Started : loads[l].overlap
     /\ \A l \in Started : loads[l].pc = "done") =>
        /\ acmiData = OutcomeOf(loads[LatestLoad].file)
        /\ fileName.shown => fileName.name = loads[LatestLoad].file.name

====
